---- MODULE Spec2Model ----
(***************************************************************************)
(* Offline write queue and sync engine of the Garage web client.           *)
(*                                                                         *)
(* The repository holds four iterations of the foreground script; a page   *)
(* runs exactly one of them:                                               *)
(*   "byId"       src/app/static/app.js        remove by id after success  *)
(*   "requeue"    src/unnamed/part_005:1-197   dequeueFirst, unshift back  *)
(*   "batchToast" src/unnamed/part_005:199-297 clear after loop, toasts    *)
(*   "batchFetch" src/unnamed/part_004         clear after loop, no res.ok *)
(***************************************************************************)
EXTENDS Integers, Sequences, FiniteSets, Bags, TLC

VARIABLES
    engine,       \* which iteration of the script the page runs
    online,       \* navigator.onLine
    storage,      \* content of the localStorage key holding the queue
    nextId,       \* source of fresh ids (crypto.randomUUID / Date.now()+random)
    hooks,        \* number of submit listeners attached to the offline form
    loadPending,  \* the page's 'load' event has not been handled yet
    banner,       \* the status banner (#sg-status-banner) and its sync button
    pass,         \* the pending syncQueue() calls: a bag of their local states
    lastPass,     \* history: summary of the drain pass that ended in the last step
    confirmed,    \* history: ids whose replay the server answered with success
    ret,          \* result of the submit handler that ran in the last step
    loaded,       \* result of the last stand-alone loadQueue() call
    op,           \* history: the stand-alone queue operation of the last step
    swKind,       \* which install handler the deployed service worker script has
    client,       \* which iteration of the update script the page runs
    reg,          \* the ServiceWorkerRegistration: installing / waiting / active
    controller,   \* navigator.serviceWorker.controller of the page (0: none)
    page,         \* the document: listeners, update banner, reload flag
    inbox,        \* the message posted to the waiting worker, not yet delivered
    ulast,        \* history: the lifecycle step taken last
    worker,       \* which iteration of the service worker script is deployed
    cacheStore,   \* CacheStorage: the cache generations in creation order
    act,          \* install / activate progress of the new version
    handlers,     \* the fetch handlers that are running
    fstep         \* history: the step a fetch handler took last

\* the state of the page script with its queue
syncVars == <<engine, online, storage, nextId, hooks, loadPending, banner, pass,
              lastPass, confirmed, ret, loaded>>

\* the state of the update lifecycle
updateVars == <<swKind, client, reg, controller, page, inbox, ulast>>

\* the state of the interception layer and its cache store
fetchVars == <<worker, cacheStore, act, handlers, fstep>>

vars == <<syncVars, op, updateVars, fetchVars>>

\* the update lifecycle is not looked at
UpdateIdle ==
    /\ swKind = "none"
    /\ client = "none"
    /\ reg = <<>>
    /\ controller = 0
    /\ page = <<>>
    /\ inbox = 0
    /\ ulast = <<>>

\* the interception layer is not looked at
FetchIdle ==
    /\ worker = "none"
    /\ cacheStore = <<>>
    /\ act = <<>>
    /\ handlers = {}
    /\ fstep = <<>>

----------------------------------------------------------------------------
(* Bounds of the model *)

\* total number of items ever enqueued (ids 1..MaxItems)
MaxItems == 3
\* localStorage quota, counted in queue items: setItem raises beyond it
StorageCap == 2
\* number of syncQueue() calls that may be alive at once
MaxPasses == 2
\* number of submit listeners the form hook may have attached
MaxHooks == 2

Engines == {"byId", "requeue", "batchToast", "batchFetch"}

\* engines whose page has the status banner with the 'sync now' button
BannerEngines == {"byId", "requeue"}

----------------------------------------------------------------------------
(* Values *)

Fields == {"customer_name", "notes"}
\* what the user may have typed into a form field
Typed == {"", "A", " A"}
Forms == [Fields -> Typed]
\* the form as the user fills it in on the page
TypedForms == {[f \in Fields |-> IF f = "customer_name" THEN " A" ELSE ""]}
Undefined == "<undefined>"

\* String.prototype.trim on the typed values
Trim(s) == IF s = " A" THEN "A" ELSE s

\* (document.getElementById(f)?.value || "").trim()
\* deviceNowText(): the device's clock as text
DeviceNow == "T"

FieldValue(form, f) == Trim(IF form[f] = Undefined THEN "" ELSE form[f])

\* the data object the submit handler builds from the form
FormData(form) ==
    [f \in Fields \cup {"device_time"} |->
        IF f = "device_time" THEN DeviceNow ELSE FieldValue(form, f)]

\* the form after the handler cleared every field
ClearedForm == [f \in Fields |-> ""]

\* new Date().toISOString() when the item with this id is created: items are
\* created one at a time, so the time of creation is told by the id
Stamp(id) == id

\* the object pushed by enqueue
NewItem(id, data) == [id |-> id, created_at |-> Stamp(id), data |-> data]

Ids(q) == {q[k].id : k \in 1..Len(q)}
IdSeq(q) == [k \in 1..Len(q) |-> q[k].id]

----------------------------------------------------------------------------
(* The storage key: JSON.stringify / JSON.parse / loadQueue / saveQueue *)

\* kinds of content the key may hold
BlobKinds == {"missing", "corrupt", "emptystr", "array", "object", "number",
              "zero", "string", "null", "true", "false"}

Blob(kind, arr) == [kind |-> kind, arr |-> arr]
Missing == Blob("missing", <<>>)

\* JSON.stringify of one object: members whose value is undefined are dropped
StringifyObj(o) == [k \in {x \in DOMAIN o : o[x] # Undefined} |-> o[k]]

\* JSON.stringify of a queue (an array of items)
JSONStringify(q) ==
    Blob("array", [k \in 1..Len(q) |->
                      [id |-> q[k].id, created_at |-> q[k].created_at,
                       data |-> StringifyObj(q[k].data)]])

\* a JavaScript value as loadQueue's callers see it
JsVal(kind, arr) == [kind |-> kind, arr |-> arr]
EmptyArray == JsVal("array", <<>>)
\* no stand-alone load has been made yet
NotLoaded == JsVal("none", <<>>)

\* JSON.parse(text): the value, or "throws"
JSONParse(b) ==
    CASE b.kind = "array"   -> JsVal("array", b.arr)
      [] b.kind = "object"  -> JsVal("object", <<>>)
      [] b.kind = "number"  -> JsVal("number", <<>>)
      [] b.kind = "zero"    -> JsVal("zero", <<>>)
      [] b.kind = "string"  -> JsVal("string", <<>>)
      [] b.kind = "null"    -> JsVal("null", <<>>)
      [] b.kind = "true"    -> JsVal("true", <<>>)
      [] b.kind = "false"   -> JsVal("false", <<>>)
      [] OTHER              -> JsVal("throws", <<>>)

\* JavaScript truthiness of a parsed value
Truthy(v) == v.kind \in {"array", "object", "number", "string", "true"}

\* app.js loadQueue: JSON.parse(raw || "[]"), Array.isArray(arr) ? arr : []
LoadQueueById(b) ==
    LET raw == IF b.kind \in {"missing", "emptystr"} THEN Blob("array", <<>>) ELSE b
        arr == JSONParse(raw)
    IN  IF arr.kind = "array" THEN arr ELSE EmptyArray

\* part_005 loadQueue: JSON.parse(getItem(KEY) || "[]") || []
LoadQueueRequeue(b) ==
    LET raw == IF b.kind \in {"missing", "emptystr"} THEN Blob("array", <<>>) ELSE b
        v == JSONParse(raw)
    IN  IF v.kind = "throws" THEN EmptyArray
        ELSE IF Truthy(v) THEN v ELSE EmptyArray

\* part_005 / part_004 getQueue: JSON.parse(getItem(KEY)) || []
\* (JSON.parse(null) is null, JSON.parse("") throws)
GetQueue(b) ==
    LET v == IF b.kind = "missing" THEN JsVal("null", <<>>) ELSE JSONParse(b)
    IN  IF v.kind = "throws" THEN EmptyArray
        ELSE IF Truthy(v) THEN v ELSE EmptyArray

\* the load function of each iteration of the script
LoadQueue(e, b) ==
    CASE e = "byId"    -> LoadQueueById(b)
      [] e = "requeue" -> LoadQueueRequeue(b)
      [] OTHER         -> GetQueue(b)

\* the queue as the engine reads it (the key only ever holds what saveQueue wrote)
Queue(e, b) == LoadQueue(e, b).arr

\* localStorage.setItem raises QuotaExceededError when the blob does not fit
SetItemThrows(q) == Len(q) > StorageCap

\* a mutation of saveQueue: the last element is lost on the way to storage
SaveQueueDropLast(q) ==
    JSONStringify(IF q = <<>> THEN q ELSE SubSeq(q, 1, Len(q) - 1))

\* saveQueue(q): localStorage.setItem(KEY, JSON.stringify(q || []))
SaveQueue(q) == JSONStringify(q)

\* enqueue(data): load, push, save, return length
\* result: the storage after the call, the in-memory array, whether it raised
\* (push on a loaded value that is no array raises a TypeError)
\* an enqueue that stamps every item of the array it saves
EnqueueRestamps(e, b, id, data) ==
    LET v == LoadQueue(e, b)
        q == Append(v.arr, NewItem(id, data))
        s == [k \in 1..Len(q) |-> [q[k] EXCEPT !.created_at = Stamp(id)]]
    IN  IF v.kind # "array" \/ SetItemThrows(q)
        THEN [storage |-> b, mem |-> q, threw |-> TRUE, len |-> 0]
        ELSE [storage |-> SaveQueue(s), mem |-> s, threw |-> FALSE, len |-> Len(q)]

Enqueue(e, b, id, data) ==
    LET v == LoadQueue(e, b)
        q == Append(v.arr, NewItem(id, data))
    IN  IF v.kind # "array" \/ SetItemThrows(q)
        THEN [storage |-> b, mem |-> q, threw |-> TRUE, len |-> 0]
        ELSE [storage |-> SaveQueue(q), mem |-> q, threw |-> FALSE, len |-> Len(q)]

\* a mutation of dequeueById: the filter keeps every element
DequeueByIdKeepsAll(e, b, id) == SaveQueue(Queue(e, b))

\* dequeueById(id): load, filter, save
DequeueById(e, b, id) ==
    SaveQueue(SelectSeq(Queue(e, b), LAMBDA x : x.id # id))

\* dequeueFirst(): q = loadQueue(); item = q.shift(); saveQueue(q); return item
\* result: the storage after the call, the returned item (<<>> for undefined)
\* and whether it raised (shift on a loaded value that is no array raises a
\* TypeError before anything is saved)
DequeueFirstResult(e, b) ==
    LET v == LoadQueue(e, b)
    IN  IF v.kind # "array"
        THEN [storage |-> b, item |-> <<>>, threw |-> TRUE]
        ELSE IF v.arr = <<>>
        THEN [storage |-> SaveQueue(<<>>), item |-> <<>>, threw |-> FALSE]
        ELSE [storage |-> SaveQueue(Tail(v.arr)), item |-> <<Head(v.arr)>>,
              threw |-> FALSE]

\* the storage after dequeueFirst()
DequeueFirst(e, b) == DequeueFirstResult(e, b).storage

\* queueCount()
QueueCount(e, b) == Len(Queue(e, b))

----------------------------------------------------------------------------
(* The status banner *)

\* closed: the close button was the last thing to set the element's display
NoBanner == [el |-> FALSE, red |-> FALSE, cnt |-> 0, btn |-> FALSE, disabled |-> FALSE,
             closed |-> FALSE]

\* a refreshBanner() that leaves the count of the online branch as it was
RefreshBannerStaleCount(e, bnr, on, b) ==
    LET cnt == QueueCount(e, b)
    IN  IF e \notin BannerEngines THEN bnr
        ELSE IF ~on THEN [bnr EXCEPT !.el = TRUE, !.red = TRUE, !.cnt = cnt, !.btn = FALSE,
                                     !.closed = FALSE]
        ELSE IF cnt > 0 THEN [bnr EXCEPT !.el = TRUE, !.red = FALSE, !.btn = TRUE,
                                         !.closed = FALSE]
        ELSE [bnr EXCEPT !.el = FALSE, !.closed = FALSE]

\* refreshBanner(): offline -> red, count, no button; online with pending items
\* -> green, count, button; online and nothing pending -> element hidden
RefreshBanner(e, bnr, on, b) ==
    LET cnt == QueueCount(e, b)
    IN  IF e \notin BannerEngines THEN bnr
        ELSE IF ~on THEN [bnr EXCEPT !.el = TRUE, !.red = TRUE, !.cnt = cnt, !.btn = FALSE,
                                     !.closed = FALSE]
        ELSE IF cnt > 0 THEN [bnr EXCEPT !.el = TRUE, !.red = FALSE, !.cnt = cnt, !.btn = TRUE,
                                         !.closed = FALSE]
        ELSE [bnr EXCEPT !.el = FALSE, !.closed = FALSE]

\* what the handler that awaited syncQueue() does once it returned (or raised)
AfterSync(e, trig, bnr, threw, on, b) ==
    IF e \notin BannerEngines THEN bnr
    ELSE IF threw /\ e = "requeue" THEN bnr
    ELSE IF trig = "click" THEN RefreshBanner(e, [bnr EXCEPT !.disabled = FALSE], on, b)
    ELSE RefreshBanner(e, bnr, on, b)

----------------------------------------------------------------------------
(* syncQueue(): one drain pass *)

\* locals of a call that waits for its timer: trig is the kind of handler that
\* made the call, "event" (online, load) or "click"
TimerPass(trig) == [pc |-> "timer", trig |-> trig, q |-> <<>>, i |-> 0, item |-> <<>>,
                    startQ |-> <<>>, sent |-> <<>>, clean |-> TRUE]

NoPass == [end |-> "none", startQ |-> <<>>, sent |-> <<>>, endQ |-> <<>>,
           clean |-> TRUE, okToasts |-> 0, failToasts |-> 0]

\* outcomes of one replay request: a final status in the success range, a final
\* status outside it, or a rejected fetch (network error)
Outcomes == {"ok", "http", "neterr"}

\* the synchronous prefix of syncQueue(), up to the first fetch
\* byId / batchToast / batchFetch: onLine check, snapshot, empty check, q[0]
BeginSnapshot(e, b, on) ==
    LET q == Queue(e, b)
    IN  IF ~on THEN [end |-> "offline", storage |-> b, q |-> <<>>, item |-> <<>>]
        ELSE IF Len(q) = 0 THEN [end |-> "empty", storage |-> b, q |-> <<>>, item |-> <<>>]
        ELSE [end |-> "inflight", storage |-> b, q |-> q, item |-> <<q[1]>>]

\* requeue: onLine check, while (queueCount() > 0) { item = dequeueFirst(); ...
BeginRequeue(e, b, on) ==
    IF ~on THEN [end |-> "offline", storage |-> b, q |-> <<>>, item |-> <<>>]
    ELSE IF QueueCount(e, b) = 0
         THEN [end |-> "empty", storage |-> b, q |-> <<>>, item |-> <<>>]
    ELSE [end |-> "inflight", storage |-> DequeueFirst(e, b), q |-> <<>>,
          item |-> <<Head(Queue(e, b))>>]

Begin(e, b, on) ==
    IF e = "requeue" THEN BeginRequeue(e, b, on) ELSE BeginSnapshot(e, b, on)

\* The continuation of syncQueue() after the awaited request of slot record rec
\* settled with outcome r.  Result: the storage, whether the loop goes on (and
\* with which item), how the pass ended otherwise, and the toasts it showed.
Cont(b, rec, item) ==
    [storage |-> b, end |-> "inflight", i |-> rec.i + 1, item |-> <<item>>,
     okToasts |-> 0, failToasts |-> 0]
Stop(b, end, ok, fail) ==
    [storage |-> b, end |-> end, i |-> 0, item |-> <<>>,
     okToasts |-> ok, failToasts |-> fail]

\* a mutation of the loop of app.js: the catch block does not break
ReplyByIdNoBreak(e, b, rec, r) ==
    LET b1 == IF r = "ok" THEN DequeueById(e, b, rec.item[1].id) ELSE b
    IN  IF rec.i < Len(rec.q) THEN Cont(b1, rec, rec.q[rec.i + 1])
        ELSE Stop(b1, IF r = "ok" THEN "completed" ELSE "failed", 0, 0)

\* app.js: postNewVisit raises unless res.ok; success -> dequeueById; catch -> break
ReplyById(e, b, rec, r) ==
    IF r = "ok"
    THEN LET b1 == DequeueById(e, b, rec.item[1].id)
         IN  IF rec.i < Len(rec.q) THEN Cont(b1, rec, rec.q[rec.i + 1])
             ELSE Stop(b1, "completed", 0, 0)
    ELSE Stop(b, "failed", 0, 0)

\* a mutation of the catch block of part_005: push(item) instead of unshift(item)
ReplyRequeueAtBack(e, b, rec, r) ==
    IF r = "ok"
    THEN IF QueueCount(e, b) > 0
         THEN Cont(DequeueFirst(e, b), rec, Head(Queue(e, b)))
         ELSE Stop(b, "completed", 0, 0)
    ELSE LET q == Queue(e, b) \o rec.item
         IN  IF SetItemThrows(q) THEN Stop(b, "threw", 0, 0)
             ELSE Stop(SaveQueue(q), "failed", 0, 0)

\* part_005: success -> next loop test; catch -> loadQueue, unshift(item), saveQueue, break
ReplyRequeue(e, b, rec, r) ==
    IF r = "ok"
    THEN IF QueueCount(e, b) > 0
         THEN Cont(DequeueFirst(e, b), rec, Head(Queue(e, b)))
         ELSE Stop(b, "completed", 0, 0)
    ELSE LET q == rec.item \o Queue(e, b)
         IN  IF SetItemThrows(q) THEN Stop(b, "threw", 0, 0)
             ELSE Stop(SaveQueue(q), "failed", 0, 0)

\* a catch block that clears the queue before it returns
ReplyBatchToastClears(e, b, rec, r) ==
    IF r = "ok"
    THEN IF rec.i < Len(rec.q) THEN Cont(b, rec, rec.q[rec.i + 1])
         ELSE Stop(Missing, "completed", 1, 0)
    ELSE Stop(Missing, "failed", 0, 1)

\* part_005 (toasts): raises unless res.ok; catch -> failure toast, return;
\* after the loop -> removeItem, success toast
ReplyBatchToast(e, b, rec, r) ==
    IF r = "ok"
    THEN IF rec.i < Len(rec.q) THEN Cont(b, rec, rec.q[rec.i + 1])
         ELSE Stop(Missing, "completed", 1, 0)
    ELSE Stop(b, "failed", 0, 1)

\* part_004: only a rejected fetch is caught (res.ok is not looked at);
\* catch -> return; after the loop -> removeItem, success toast
ReplyBatchFetch(e, b, rec, r) ==
    IF r # "neterr"
    THEN IF rec.i < Len(rec.q) THEN Cont(b, rec, rec.q[rec.i + 1])
         ELSE Stop(Missing, "completed", 1, 0)
    ELSE Stop(b, "failed", 0, 0)

Reply(e, b, rec, r) ==
    CASE e = "byId"       -> ReplyById(e, b, rec, r)
      [] e = "requeue"    -> ReplyRequeue(e, b, rec, r)
      [] e = "batchToast" -> ReplyBatchToast(e, b, rec, r)
      [] OTHER            -> ReplyBatchFetch(e, b, rec, r)

----------------------------------------------------------------------------
(* The submit handler of the offline form *)

NoRet == [calls |-> 0, threw |-> FALSE, done |-> FALSE, len |-> 0, mem |-> <<>>]

\* DOMContentLoaded attaches the one listener of the batch scripts; the banner
\* scripts attach theirs in the load and visibilitychange handlers
InitHooks(e) == IF e \in BannerEngines THEN 0 ELSE 1

\* One listener: build data, enqueue, refreshBanner, clear the form, alert.
\* st = [storage, id, form, banner, ret]; a raising setItem ends the listener
\* right there (nothing catches it), the form stays as typed.
Listener(e, st) ==
    LET r == Enqueue(e, st.storage, st.id, FormData(st.form))
    IN  IF r.threw
        THEN [st EXCEPT !.ret = [calls |-> st.ret.calls + 1, threw |-> TRUE,
                                 done |-> FALSE, len |-> 0, mem |-> r.mem]]
        ELSE [storage |-> r.storage,
              id      |-> st.id + 1,
              form    |-> IF e \in BannerEngines THEN ClearedForm ELSE st.form,
              banner  |-> RefreshBanner(e, st.banner, FALSE, r.storage),
              ret     |-> [calls |-> st.ret.calls + 1, threw |-> FALSE,
                           done |-> TRUE, len |-> r.len, mem |-> r.mem]]

\* the submit event runs every attached listener in turn
RECURSIVE RunListeners(_, _, _)
RunListeners(e, k, st) ==
    IF k = 0 THEN st ELSE RunListeners(e, k - 1, Listener(e, st))

----------------------------------------------------------------------------
(* Initial state: a freshly opened page, nothing stored yet *)

\* everything that is not the page script's own state
notSync == <<op, updateVars, fetchVars>>

\* no stand-alone queue operation has run
NoOp == [name |-> "none", before |-> Missing, arg |-> 0, threw |-> FALSE, item |-> <<>>]

Init ==
    /\ op = NoOp
    /\ UpdateIdle
    /\ FetchIdle
    /\ engine \in Engines
    /\ online \in BOOLEAN
    /\ storage = Missing
    /\ nextId = 1
    /\ hooks = InitHooks(engine)
    /\ loadPending = TRUE
    /\ banner = NoBanner
    /\ pass = EmptyBag
    /\ lastPass = NoPass
    /\ confirmed = {}
    /\ ret = NoRet
    /\ loaded = NotLoaded

Passes == BagToSet(pass)
InFlight(rec) == rec.pc = "inflight"
InFlightCount == BagCardinality([rec \in {x \in Passes : InFlight(x)} |-> pass[rec]])
HasFreeSlot == BagCardinality(pass) < MaxPasses

RECURSIVE SumCopies(_, _)
SumCopies(S, B) ==
    IF S = {} THEN 0
    ELSE LET x == CHOOSE y \in S : TRUE IN B[x] + SumCopies(S \ {x}, B)

\* history: every running pass has been disturbed
Disturb(rec) == IF InFlight(rec) THEN [rec EXCEPT !.clean = FALSE] ELSE rec
Disturbed(B) ==
    [y \in {Disturb(x) : x \in BagToSet(B)} |->
        SumCopies({x \in BagToSet(B) : Disturb(x) = y}, B)]

\* syncQueue() is called by a handler of kind trig, the other pending calls
\* being others; bnr is the banner as the handler left it before the call
StartSync(others, trig, on, bnr) ==
    LET b == Begin(engine, storage, on)
        start == IdSeq(Queue(engine, storage))
    IN  /\ storage' = b.storage
        /\ IF b.end = "inflight"
           THEN /\ pass' = Disturbed(others) (+) SetToBag({
                               [pc |-> "inflight", trig |-> trig, q |-> b.q, i |-> 1,
                                item |-> b.item, startQ |-> start,
                                sent |-> <<[id |-> b.item[1].id, res |-> "pending"]>>,
                                clean |-> \A x \in BagToSet(others) : ~InFlight(x)]})
                /\ lastPass' = NoPass
                /\ banner' = bnr
           ELSE /\ pass' = others
                /\ lastPass' = [end |-> b.end, startQ |-> start, sent |-> <<>>,
                                endQ |-> start, clean |-> TRUE,
                                okToasts |-> 0, failToasts |-> 0]
                /\ banner' = AfterSync(engine, trig, bnr, FALSE, on, b.storage)

\* a timer whose callback is never registered
SetTimerDropped(trig) ==
    /\ lastPass' = NoPass
    /\ UNCHANGED <<storage, banner, pass>>

\* setTimeout(syncQueue, 800)
SetTimer(trig) ==
    /\ pass' = pass (+) SetToBag({TimerPass(trig)})
    /\ lastPass' = NoPass
    /\ UNCHANGED <<storage, banner>>

\* window 'online' event
OnlineEvent ==
    /\ UNCHANGED notSync
    /\ ~online
    /\ HasFreeSlot
    /\ online' = TRUE
    /\ CASE engine \in BannerEngines ->
              StartSync(pass, "event", TRUE,
                        RefreshBanner(engine, banner, TRUE, storage))
         [] engine = "batchToast" -> SetTimer("event")
         [] OTHER -> StartSync(pass, "event", TRUE, banner)
    /\ ret' = NoRet
    /\ UNCHANGED <<engine, nextId, hooks, loadPending, confirmed, loaded>>

\* window 'offline' event
OfflineEvent ==
    /\ UNCHANGED notSync
    /\ online
    /\ online' = FALSE
    /\ banner' = RefreshBanner(engine, banner, FALSE, storage)
    /\ lastPass' = NoPass
    /\ ret' = NoRet
    /\ UNCHANGED <<engine, storage, nextId, hooks, loadPending, pass, confirmed, loaded>>

\* window 'load' event (the banner scripts: after await registerSW())
LoadEvent ==
    /\ UNCHANGED notSync
    /\ loadPending
    /\ loadPending' = FALSE
    /\ CASE engine \in BannerEngines ->
              /\ hooks' = hooks + 1
              /\ IF online /\ QueueCount(engine, storage) > 0
                 THEN /\ HasFreeSlot
                      /\ StartSync(pass, "event", online,
                                   RefreshBanner(engine, banner, online, storage))
                 ELSE /\ banner' = RefreshBanner(engine, banner, online, storage)
                      /\ lastPass' = NoPass
                      /\ UNCHANGED <<storage, pass>>
         [] engine = "batchToast" ->
              /\ HasFreeSlot
              /\ SetTimer("event")
              /\ UNCHANGED hooks
         [] OTHER ->
              /\ HasFreeSlot
              /\ StartSync(pass, "event", online, banner)
              /\ UNCHANGED hooks
    /\ ret' = NoRet
    /\ UNCHANGED <<engine, online, nextId, confirmed, loaded>>

\* the 800 ms timer of the toast script fires
TimerFires(rec) ==
    /\ UNCHANGED notSync
    /\ rec.pc = "timer"
    /\ StartSync(pass (-) SetToBag({rec}), rec.trig, online, banner)
    /\ ret' = NoRet
    /\ UNCHANGED <<engine, online, nextId, hooks, loadPending, confirmed, loaded>>

\* click on the 'sync now' button (a disabled or hidden button takes no click)
ClickSync ==
    /\ UNCHANGED notSync
    /\ engine \in BannerEngines
    /\ banner.el /\ banner.btn /\ ~banner.disabled
    /\ HasFreeSlot
    /\ StartSync(pass, "click", online, [banner EXCEPT !.disabled = TRUE])
    /\ ret' = NoRet
    /\ UNCHANGED <<engine, online, nextId, hooks, loadPending, confirmed, loaded>>

\* the awaited replay request of the call with locals rec settles with outcome r
Respond(rec, r) ==
    /\ UNCHANGED notSync
    /\ InFlight(rec)
    /\ LET others == pass (-) SetToBag({rec})
           rp == Reply(engine, storage, rec, r)
           sent1 == [rec.sent EXCEPT ![Len(rec.sent)].res = r]
       IN  /\ storage' = rp.storage
           /\ confirmed' = IF r = "ok" THEN confirmed \cup {rec.item[1].id}
                           ELSE confirmed
           /\ IF rp.end = "inflight"
              THEN /\ pass' = others (+) SetToBag({
                                 [rec EXCEPT !.i = rp.i, !.item = rp.item,
                                    !.sent = Append(sent1, [id |-> rp.item[1].id,
                                                            res |-> "pending"])]})
                   /\ lastPass' = NoPass
                   /\ UNCHANGED banner
              ELSE /\ pass' = others
                   /\ lastPass' = [end |-> rp.end, startQ |-> rec.startQ,
                                   sent |-> sent1,
                                   endQ |-> IdSeq(Queue(engine, rp.storage)),
                                   clean |-> rec.clean,
                                   okToasts |-> rp.okToasts,
                                   failToasts |-> rp.failToasts]
                   /\ banner' = AfterSync(engine, rec.trig, banner, rp.end = "threw",
                                          online, rp.storage)
    /\ ret' = NoRet
    /\ UNCHANGED <<engine, online, nextId, hooks, loadPending, loaded>>

\* a listener that takes over every submission
InterceptsAlways(on) == TRUE

\* if (navigator.onLine) return;  -- the first statement of every listener
Intercepts(on) == ~on

\* the user submits the form.  Offline the listeners take the submission over;
\* online each listener returns at once, the browser submits the form itself
\* and the page is replaced by the server's answer.
Submit(form) ==
    /\ UNCHANGED notSync
    /\ hooks > 0
    /\ IF Intercepts(online)
       THEN /\ nextId + hooks - 1 <= MaxItems
            /\ LET st == RunListeners(engine, hooks,
                            [storage |-> storage, id |-> nextId, form |-> form,
                             banner |-> banner, ret |-> NoRet])
               IN  /\ storage' = st.storage
                   /\ nextId' = st.id
                   /\ banner' = st.banner
                   /\ ret' = st.ret
            /\ pass' = Disturbed(pass)
            /\ UNCHANGED <<hooks, loadPending>>
       ELSE /\ pass' = EmptyBag
            /\ banner' = NoBanner
            /\ hooks' = InitHooks(engine)
            /\ loadPending' = TRUE
            /\ ret' = NoRet
            /\ UNCHANGED <<storage, nextId>>
    /\ lastPass' = NoPass
    /\ UNCHANGED <<engine, online, confirmed, loaded>>

\* document 'visibilitychange' to visible: refreshBanner and hook the form again
Visibility ==
    /\ UNCHANGED notSync
    /\ engine \in BannerEngines
    /\ hooks + (IF loadPending THEN 1 ELSE 0) < MaxHooks
    /\ hooks' = hooks + 1
    /\ banner' = RefreshBanner(engine, banner, online, storage)
    /\ lastPass' = NoPass
    /\ ret' = NoRet
    /\ UNCHANGED <<engine, online, storage, nextId, loadPending, pass, confirmed, loaded>>

\* click on the banner's close button
CloseBanner ==
    /\ UNCHANGED notSync
    /\ engine \in BannerEngines
    /\ banner.el
    /\ banner' = [banner EXCEPT !.el = FALSE, !.closed = TRUE]
    /\ lastPass' = NoPass
    /\ ret' = NoRet
    /\ UNCHANGED <<engine, online, storage, nextId, hooks, loadPending, pass,
                   confirmed, loaded>>

\* the page is closed or killed and opened again: every running handler is
\* gone, localStorage stays
PageReload ==
    /\ UNCHANGED notSync
    /\ pass' = EmptyBag
    /\ banner' = NoBanner
    /\ hooks' = InitHooks(engine)
    /\ loadPending' = TRUE
    /\ lastPass' = NoPass
    /\ ret' = NoRet
    /\ UNCHANGED <<engine, online, storage, nextId, confirmed, loaded>>

Next ==
    \/ OnlineEvent
    \/ OfflineEvent
    \/ LoadEvent
    \/ \E rec \in Passes : TimerFires(rec)
    \/ ClickSync
    \/ \E rec \in Passes, r \in Outcomes : Respond(rec, r)
    \/ \E form \in TypedForms : Submit(form)
    \/ Visibility
    \/ CloseBanner
    \/ PageReload

Spec == Init /\ [][Next]_vars

\* The page with a server that answers every replay with success
NextLive ==
    \/ OnlineEvent
    \/ OfflineEvent
    \/ LoadEvent
    \/ \E rec \in Passes : TimerFires(rec)
    \/ ClickSync
    \/ \E rec \in Passes : Respond(rec, "ok")
    \/ \E form \in TypedForms : Submit(form)
    \/ Visibility
    \/ CloseBanner
    \/ PageReload

\* The browser delivers what it has pending: the load event of an opened page,
\* a timer that was set, the answer to a request in flight.  Connectivity
\* changes and user actions are under no obligation.
Delivery ==
    /\ WF_vars(LoadEvent)
    /\ WF_vars(\E rec \in Passes : TimerFires(rec))
    /\ WF_vars(\E rec \in Passes : Respond(rec, "ok"))

SpecLive == Init /\ [][NextLive]_vars /\ Delivery

----------------------------------------------------------------------------
(* The queue operations on their own, over every content of the storage key *)

\* payloads the submit handler can build
Payloads == {FormData(form) : form \in Forms}

\* arrays saveQueue may have written: up to StorageCap items, ids in order
RECURSIVE QueuesOfLen(_)
QueuesOfLen(n) ==
    IF n = 0 THEN {<<>>}
    ELSE {Append(q, NewItem(n, d)) : q \in QueuesOfLen(n - 1), d \in Payloads}

StoredQueues == UNION {QueuesOfLen(n) : n \in 0..StorageCap}

\* what the key may hold when the script finds it: nothing, text that is not
\* JSON, JSON that is not an array, or an array written by saveQueue
AnyBlob == {Blob(k, <<>>) : k \in BlobKinds \ {"array"}}
              \cup {Blob("array", q) : q \in StoredQueues}

InitOps ==
    /\ op = NoOp
    /\ UpdateIdle
    /\ FetchIdle
    /\ engine \in Engines
    /\ storage \in AnyBlob
    /\ nextId = Len(storage.arr) + 1
    /\ online = FALSE
    /\ hooks = InitHooks(engine)
    /\ loadPending = FALSE
    /\ banner = NoBanner
    /\ pass = EmptyBag
    /\ lastPass = NoPass
    /\ confirmed = {}
    /\ ret = NoRet
    /\ loaded = NotLoaded

\* loadQueue() / getQueue() is called
LoadCall ==
    /\ UNCHANGED <<updateVars, fetchVars>>
    /\ loaded' = LoadQueue(engine, storage)
    /\ ret' = NoRet
    /\ op' = NoOp
    /\ UNCHANGED <<engine, online, storage, nextId, hooks, loadPending, banner, pass,
                   lastPass, confirmed>>

\* enqueue(data) is called with the payload built from a form
EnqueueCall(form) ==
    /\ UNCHANGED <<updateVars, fetchVars>>
    /\ nextId <= MaxItems
    /\ LET r == Enqueue(engine, storage, nextId, FormData(form))
       IN  /\ storage' = r.storage
           /\ nextId' = IF r.threw THEN nextId ELSE nextId + 1
           /\ ret' = [calls |-> 1, threw |-> r.threw, done |-> ~r.threw,
                      len |-> r.len, mem |-> r.mem]
    /\ loaded' = NotLoaded
    /\ op' = [name |-> "enqueue", before |-> storage, arg |-> nextId,
              threw |-> Enqueue(engine, storage, nextId, FormData(form)).threw,
              item |-> <<>>]
    /\ UNCHANGED <<engine, online, hooks, loadPending, banner, pass, lastPass, confirmed>>

\* dequeueFirst() is called (part_005)
DequeueFirstCall ==
    /\ UNCHANGED <<updateVars, fetchVars>>
    /\ engine = "requeue"
    /\ LET r == DequeueFirstResult(engine, storage)
       IN  /\ storage' = r.storage
           /\ op' = [name |-> "dequeueFirst", before |-> storage, arg |-> 0,
                     threw |-> r.threw, item |-> r.item]
    /\ ret' = NoRet
    /\ loaded' = NotLoaded
    /\ UNCHANGED <<engine, online, nextId, hooks, loadPending, banner, pass,
                   lastPass, confirmed>>

\* dequeueById(id) is called (app.js)
DequeueByIdCall(id) ==
    /\ UNCHANGED <<updateVars, fetchVars>>
    /\ engine = "byId"
    /\ storage' = DequeueById(engine, storage, id)
    /\ op' = [name |-> "dequeueById", before |-> storage, arg |-> id,
              threw |-> FALSE, item |-> <<>>]
    /\ ret' = NoRet
    /\ loaded' = NotLoaded
    /\ UNCHANGED <<engine, online, nextId, hooks, loadPending, banner, pass,
                   lastPass, confirmed>>

\* data.name || ""
FieldOr(data, name) ==
    IF name \in DOMAIN data /\ data[name] \notin {Undefined, ""} THEN data[name] ELSE ""

\* URLSearchParams serialisation of one value, and its inverse on the server
Encode(s) == IF s = " A" THEN "+A" ELSE s
Decode(s) == IF s = "+A" THEN " A" ELSE s

\* postNewVisit(data): the parameters it sets, as params.toString() sends them
PostNewVisit(data) ==
    [name \in {"customer_name", "notes", "notes_general"} |->
        Encode(FieldOr(data, IF name = "notes_general" THEN "notes" ELSE name))]

\* the body of the replay request for a stored item: app.js and part_005 build
\* it with postNewVisit(item.data || {}); the batch scripts send the encoded
\* entries they stored at submit time (item.body) as they are
ReplayBody(e, item) ==
    IF e \in BannerEngines THEN PostNewVisit(item.data)
    ELSE [name \in DOMAIN item.data |-> Encode(item.data[name])]

\* the replay request for the k-th stored item is built
PostCall(k) ==
    /\ UNCHANGED <<updateVars, fetchVars>>
    /\ k \in 1..Len(Queue(engine, storage))
    /\ LET item == Queue(engine, storage)[k]
       IN  op' = [name |-> "post", before |-> storage, arg |-> k, threw |-> FALSE,
                  item |-> <<[data |-> item.data, body |-> ReplayBody(engine, item)]>>]
    /\ ret' = NoRet
    /\ loaded' = NotLoaded
    /\ UNCHANGED <<engine, online, storage, nextId, hooks, loadPending, banner, pass,
                   lastPass, confirmed>>

NextOps ==
    \/ \E k \in 1..StorageCap : PostCall(k)
    \/ LoadCall
    \/ \E form \in Forms : EnqueueCall(form)
    \/ DequeueFirstCall
    \/ \E id \in 1..MaxItems : DequeueByIdCall(id)

SpecOps == InitOps /\ [][NextOps]_vars

----------------------------------------------------------------------------
(* The update lifecycle: a page running the update script of part_000,      *)
(* part_002 or part_003 and the registration of a service worker script     *)

\* number of versions of the service worker script that get deployed
MaxVersions == 2

\* install handlers found in the repository
\*   "skipFirst" sw.js:21-28    self.skipWaiting() first, then precache
\*   "skipAfter" sw.js:141-147  self.skipWaiting() only after addAll succeeded
\*   "noSkip"    part_009:17-21 precache only
SwKinds == {"skipFirst", "skipAfter", "noSkip"}

\* update scripts: part_000 (one-shot reload flag), part_002 (no flag),
\* part_003 (TEST banner with an 8 s timer, no controllerchange listener)
ClientKinds == {"oneShot", "plain", "test"}

NoRegistration == [installing |-> 0, waiting |-> 0, active |-> 0, skip |-> FALSE]

\* a document right after it was loaded: the script has attached its
\* controllerchange listener and called registerSW(), which has not resumed yet
FreshPage == [registered |-> FALSE, watched |-> 0, updateBanner |-> FALSE,
              reloadedForSw |-> FALSE, reloading |-> FALSE, asked |-> FALSE,
              changes |-> 0, reloadCalls |-> 0,
              testBanner |-> FALSE, timer |-> FALSE]

\* the document once its script has run; the load handler of part_003 shows
\* the TEST banner (element id "update-banner") and sets the timer that
\* removes the element with that id
LoadedPage(c) ==
    IF c = "test" THEN [FreshPage EXCEPT !.testBanner = TRUE, !.timer = TRUE]
    ELSE FreshPage

NoStep == [name |-> "none", ver |-> 0, ctl |-> 0]
Step(name, ver) == [name |-> name, ver |-> ver, ctl |-> controller]

Max2(a, b) == IF a > b THEN a ELSE b
\* the number the next deployed version gets
NextVersion == Max2(reg.installing, Max2(reg.waiting, reg.active)) + 1

\* showUpdateBanner(reg) / showBanner(text, color): returns at once when an
\* element with id "update-banner" exists, whatever it shows
ShowUpdateBanner(pg) ==
    IF pg.testBanner THEN pg ELSE [pg EXCEPT !.updateBanner = TRUE]

\* window.location.reload(): the navigation starts, the document lives on
\* until PageLoad
Reload(pg) == [pg EXCEPT !.reloading = TRUE, !.reloadCalls = @ + 1]

\* the install handler: does the worker have its skip-waiting flag set when it
\* is installed?  ok: cache.addAll resolved
SkipAfterInstall(k, ok) ==
    CASE k = "skipFirst" -> TRUE
      [] k = "skipAfter" -> ok
      [] OTHER           -> FALSE

\* the worker's handling of a message {type: "SKIP_WAITING"}: does it call
\* skipWaiting()?  No script of the repository has a 'message' listener.
OnMessage(k) == FALSE

\* the statechange listener registerSW put on the installing worker:
\* if (w.state === "installed" && navigator.serviceWorker.controller) banner
OnInstalled(pg, ver, ctl) ==
    IF pg.watched = ver /\ ctl # 0 THEN ShowUpdateBanner(pg) ELSE pg

\* the controllerchange listener
OnControllerChange(c, pg) ==
    LET pg1 == [pg EXCEPT !.changes = @ + 1]
    IN  CASE c = "oneShot" ->
                 IF pg1.reloadedForSw THEN pg1
                 ELSE Reload([pg1 EXCEPT !.reloadedForSw = TRUE])
          [] c = "test" -> pg1
          [] OTHER -> Reload(pg1)

\* the page script and its queue are not looked at
SyncIdle ==
    /\ engine = "none"
    /\ online = FALSE
    /\ storage = Missing
    /\ nextId = 1
    /\ hooks = 0
    /\ loadPending = FALSE
    /\ banner = NoBanner
    /\ pass = EmptyBag
    /\ lastPass = NoPass
    /\ confirmed = {}
    /\ ret = NoRet
    /\ loaded = NotLoaded

\* everything that is not the update lifecycle's own state
notUpdate == <<syncVars, op, fetchVars>>

InitUpdate ==
    /\ SyncIdle
    /\ op = NoOp
    /\ FetchIdle
    /\ swKind \in SwKinds
    /\ client \in ClientKinds
    /\ reg = NoRegistration
    /\ controller = 0
    /\ page = LoadedPage(client)
    /\ inbox = 0
    /\ ulast = NoStep

\* registerSW() resumes after await register(): a first registration starts
\* the install of version 1 (its updatefound reaches the listener attached
\* here); an existing registration is returned as it is (part_003 does not
\* look at reg.waiting)
Register ==
    /\ UNCHANGED notUpdate
    /\ ~page.registered
    /\ IF reg = NoRegistration
       THEN /\ reg' = [reg EXCEPT !.installing = 1]
            /\ page' = [page EXCEPT !.registered = TRUE, !.watched = 1]
       ELSE /\ reg' = reg
            /\ page' = LET pg == [page EXCEPT !.registered = TRUE]
                       IN  IF client # "test" /\ reg.waiting # 0 /\ controller # 0
                           THEN ShowUpdateBanner(pg) ELSE pg
    /\ ulast' = Step("register", 0)
    /\ UNCHANGED <<swKind, client, controller, inbox>>

\* with a version active, the browser finds a differing script (reg.update()
\* of the 60 s interval, or its own check on navigation) and starts installing
\* it; the updatefound
\* listener, if the document has one, puts a statechange listener on it
UpdateFound ==
    /\ UNCHANGED notUpdate
    /\ reg.active # 0
    /\ reg.installing = 0
    /\ NextVersion <= MaxVersions
    /\ reg' = [reg EXCEPT !.installing = NextVersion]
    /\ page' = IF page.registered THEN [page EXCEPT !.watched = NextVersion] ELSE page
    /\ ulast' = Step("updatefound", NextVersion)
    /\ UNCHANGED <<swKind, client, controller, inbox>>

\* the install handler's waitUntil promise settles (a failed addAll is caught):
\* the worker is 'installed' and becomes the waiting worker
InstallDone(ok) ==
    /\ UNCHANGED notUpdate
    /\ reg.installing # 0
    /\ reg' = [reg EXCEPT !.installing = 0, !.waiting = reg.installing,
                          !.skip = SkipAfterInstall(swKind, ok)]
    /\ page' = OnInstalled(page, reg.installing, controller)
    /\ inbox' = 0
    /\ ulast' = Step("installed", reg.installing)
    /\ UNCHANGED <<swKind, client, controller>>

\* the waiting worker activates: it has the skip-waiting flag, or no document
\* is controlled by an older version; its activate handler claims the page
Activate ==
    /\ UNCHANGED notUpdate
    /\ reg.waiting # 0
    /\ reg.skip \/ controller = 0
    /\ reg' = [reg EXCEPT !.waiting = 0, !.active = reg.waiting, !.skip = FALSE]
    /\ controller' = reg.waiting
    /\ page' = OnControllerChange(client, page)
    /\ inbox' = 0
    /\ ulast' = Step("activated", reg.waiting)
    /\ UNCHANGED <<swKind, client>>

\* click on the banner's button
\* part_000: if (reg.waiting) postMessage(SKIP_WAITING); location.reload()
\* part_002: if (reg.waiting) postMessage(SKIP_WAITING) else location.reload()
\* part_003: location.reload()
ClickUpdate ==
    /\ UNCHANGED notUpdate
    /\ page.updateBanner
    /\ ~page.reloading
    /\ inbox' = IF client # "test" /\ reg.waiting # 0 THEN reg.waiting ELSE inbox
    /\ page' = LET pg == [page EXCEPT !.asked = TRUE]
               IN  IF client \in {"oneShot", "test"} \/ reg.waiting = 0
                   THEN Reload(pg) ELSE pg
    /\ ulast' = Step("click", reg.waiting)
    /\ UNCHANGED <<swKind, client, reg, controller>>

\* the posted message is delivered to the waiting worker
MessageEvent ==
    /\ UNCHANGED notUpdate
    /\ inbox # 0
    /\ inbox = reg.waiting
    /\ inbox' = 0
    /\ reg' = [reg EXCEPT !.skip = @ \/ OnMessage(swKind)]
    /\ ulast' = Step("message", inbox)
    /\ UNCHANGED <<swKind, client, controller, page>>

\* the document is loaded anew (a reload that was asked for completes, or the
\* user reloads): the active version controls the new document
PageLoad ==
    /\ UNCHANGED notUpdate
    /\ page' = LoadedPage(client)
    /\ controller' = reg.active
    /\ ulast' = Step("load", 0)
    /\ UNCHANGED <<swKind, client, reg, inbox>>

\* every document of the app is closed and the app is opened again: a waiting
\* worker activates in between
Reopen ==
    /\ UNCHANGED notUpdate
    /\ reg.waiting # 0
    /\ reg' = [reg EXCEPT !.waiting = 0, !.active = reg.waiting, !.skip = FALSE]
    /\ controller' = reg.waiting
    /\ page' = LoadedPage(client)
    /\ inbox' = 0
    /\ ulast' = Step("reopen", reg.waiting)
    /\ UNCHANGED <<swKind, client>>

\* click on the close button of the banner of part_003: el.remove()
CloseUpdate ==
    /\ UNCHANGED notUpdate
    /\ client = "test"
    /\ page.updateBanner \/ page.testBanner
    /\ page' = [page EXCEPT !.updateBanner = FALSE, !.testBanner = FALSE]
    /\ ulast' = Step("close", 0)
    /\ UNCHANGED <<swKind, client, reg, controller, inbox>>

\* the 8 s timer of the load handler of part_003 fires: the element with id
\* "update-banner" that exists then is removed
BannerTimer ==
    /\ UNCHANGED notUpdate
    /\ page.timer
    /\ page' = [page EXCEPT !.timer = FALSE, !.updateBanner = FALSE,
                            !.testBanner = FALSE]
    /\ ulast' = Step("timer", 0)
    /\ UNCHANGED <<swKind, client, reg, controller, inbox>>

NextUpdate ==
    \/ Register
    \/ UpdateFound
    \/ \E ok \in BOOLEAN : InstallDone(ok)
    \/ Activate
    \/ ClickUpdate
    \/ MessageEvent
    \/ PageLoad
    \/ Reopen
    \/ CloseUpdate
    \/ BannerTimer

SpecUpdate == InitUpdate /\ [][NextUpdate]_vars

\* what is bound to happen: registerSW() resumes, a timer that was set fires,
\* and the browser activates a waiting worker that may activate; deployments
\* and the user's clicks and reloads are not
UpdateDelivery == WF_vars(Register) /\ WF_vars(BannerTimer) /\ WF_vars(Activate)

SpecUpdateLive == InitUpdate /\ [][NextUpdate]_vars /\ UpdateDelivery

----------------------------------------------------------------------------
(* The interception layer: fetch handler, cache store and activation of a   *)
(* new version of the service worker script                                 *)

\* number of fetch handlers that may be running at once
MaxFetches == 1

\* iterations of the service worker script
\*   "shell"  sw.js:1-81 (and part_007:80-161)
\*   "pages"  sw.js:215-420
\*   "pwa"    part_011
\*   "simple" part_008
\*   "phase1" part_009:1-58 (offline-v2)
\*   "v7"     part_010:1-48
\*   "v6"     sw.js:83-213 (offline-v6)
WorkerKinds == {"shell", "pages", "pwa", "simple", "phase1", "v7", "v6"}

PagePaths == {"/", "/visits/new", "/history"}
StaticPaths == {"/static/app.js"}
Paths == PagePaths \cup StaticPaths

\* names of cache generations: CACHE_NAME (SW_CACHE) of the previous version
\* and of the new version, PAGES_CACHE filled by the page script of part_007
GenNames == {"old", "cur", "pages"}

Request(method, mode, path) == [method |-> method, mode |-> mode, path |-> path]
NoRequest == Request("none", "none", "none")

\* requests the page makes: navigations, a script, a fetch() of a page, and
\* the POST of the visit form
Requests == {Request("GET", "navigate", "/history"),
             Request("GET", "navigate", "/visits/new"),
             Request("GET", "no-cors", "/static/app.js"),
             Request("GET", "cors", "/history"),
             Request("POST", "navigate", "/visits/new")}

\* the list the install handler passes to cache.addAll
Precache(k) ==
    CASE k \in {"shell", "phase1", "v6"} -> Paths
      [] k = "pages" -> StaticPaths
      [] k = "pwa"   -> {"/", "/history", "/static/app.js"}
      [] OTHER       -> {"/", "/history"}

\* the generations the activate handler does not delete; "simple" deletes none
Keep(k) ==
    CASE k = "pages"  -> {"cur", "pages"}
      [] k = "simple" -> GenNames
      [] OTHER        -> {"cur"}

(* CacheStorage *)
Gen(name, paths) == [name |-> name, paths |-> paths]
GenNamesOf(store) == {store[i].name : i \in 1..Len(store)}

\* caches.open(n): the generation is created when it does not exist
Open(store, n) ==
    IF n \in GenNamesOf(store) THEN store ELSE Append(store, Gen(n, {}))

\* cache.put / cache.addAll on caches.open(n)
PutAll(store, n, ps) ==
    LET st == Open(store, n)
    IN  [i \in 1..Len(st) |->
            IF st[i].name = n THEN Gen(n, st[i].paths \cup ps) ELSE st[i]]

\* caches.delete(n)
Delete(store, n) == SelectSeq(store, LAMBDA g : g.name # n)

\* caches.match(key): the entry of the first generation, in creation order,
\* that has one
MatchAny(store, p) ==
    LET hits == {i \in 1..Len(store) : p \in store[i].paths}
    IN  IF hits = {} THEN "miss"
        ELSE store[CHOOSE i \in hits : \A j \in hits : i <= j].name

\* (await caches.open(n)).match(key)
MatchIn(store, n, p) ==
    IF \E i \in 1..Len(store) : store[i].name = n /\ p \in store[i].paths
    THEN n ELSE "miss"

(* the routing of the fetch handler *)
\* one cache lookup: in "any" generation (caches.match), in the handler's "own"
\* generation or in a named one; key "req" is the request object; via says
\* what a hit stands for
Lookup(in, key, via) == [in |-> in, key |-> key, via |-> via]

Pass == [type |-> "pass", store |-> FALSE, form |-> FALSE, chain |-> <<>>, last |-> "none"]
NetworkFirst(store, form, chain, last) ==
    [type |-> "networkFirst", store |-> store, form |-> form, chain |-> chain, last |-> last]
CacheFirst(store, chain, last) ==
    [type |-> "cacheFirst", store |-> store, form |-> FALSE, chain |-> chain, last |-> last]

\* path.startsWith("/static/")
IsStatic(path) == path \in StaticPaths

\* sw.js:42-81
RouteShell(req) ==
    IF req.method # "GET" THEN Pass
    ELSE IF IsStatic(req.path)
    THEN CacheFirst(TRUE, <<Lookup("any", "req", "exact")>>, "none")
    ELSE IF req.mode = "navigate"
    THEN NetworkFirst(TRUE, FALSE,
                      <<Lookup("any", "req", "exact"),
                        Lookup("any", "/visits/new", "fallback"),
                        Lookup("any", "/", "placeholder")>>, "none")
    ELSE CacheFirst(FALSE, <<Lookup("any", "req", "exact")>>, "none")

\* sw.js:379-420
RoutePages(req) ==
    IF req.method # "GET" THEN Pass
    ELSE IF req.mode = "navigate"
    THEN NetworkFirst(FALSE, req.path = "/visits/new",
                      <<Lookup("pages", req.path, "exact")>>, "placeholder")
    ELSE CacheFirst(TRUE, <<Lookup("own", "req", "exact")>>, "504")

\* part_011:29-61 (the method is not looked at)
RoutePwa(req) ==
    IF IsStatic(req.path)
    THEN CacheFirst(TRUE, <<Lookup("any", "req", "exact")>>, "none")
    ELSE NetworkFirst(TRUE, FALSE,
                      <<Lookup("any", "req", "exact"),
                        Lookup("any", "/", "placeholder")>>, "none")

\* part_008:24-38
RouteSimple(req) ==
    IF req.method # "GET" THEN Pass
    ELSE IF req.mode = "navigate"
    THEN NetworkFirst(FALSE, FALSE, <<Lookup("any", "/", "placeholder")>>, "none")
    ELSE CacheFirst(FALSE, <<Lookup("any", "req", "exact")>>, "none")

\* part_009:32-57: the last resort of the navigate branch is Response.error()
RoutePhase1(req) ==
    IF req.method # "GET" THEN Pass
    ELSE IF req.mode = "navigate"
    THEN NetworkFirst(TRUE, FALSE,
                      <<Lookup("any", "req", "exact"),
                        Lookup("any", "/", "placeholder")>>, "error")
    ELSE CacheFirst(FALSE, <<Lookup("any", "req", "exact")>>, "none")

\* part_010:31-47
RouteV7(req) ==
    IF req.method # "GET" THEN Pass
    ELSE IF req.mode = "navigate"
    THEN NetworkFirst(FALSE, FALSE,
                      <<Lookup("any", "req", "exact"),
                        Lookup("any", "/", "placeholder")>>, "none")
    ELSE CacheFirst(FALSE, <<Lookup("any", "req", "exact")>>, "none")

\* sw.js:157-213: cachedOrOffline looks up the request, its pathname (the same
\* key here: the paths carry no query string) and "/", then builds OFFLINE_HTML
RouteV6(req) ==
    IF req.method # "GET" THEN Pass
    ELSE IF req.mode = "navigate"
    THEN NetworkFirst(TRUE, FALSE,
                      <<Lookup("any", "req", "exact"),
                        Lookup("any", "/", "placeholder")>>, "placeholder")
    ELSE CacheFirst(TRUE, <<Lookup("any", "req", "exact")>>, "504")

Route(k, req) ==
    CASE k = "shell"  -> RouteShell(req)
      [] k = "pages"  -> RoutePages(req)
      [] k = "pwa"    -> RoutePwa(req)
      [] k = "phase1" -> RoutePhase1(req)
      [] k = "v7"     -> RouteV7(req)
      [] k = "v6"     -> RouteV6(req)
      [] OTHER        -> RouteSimple(req)

\* the result of one lookup of handler h: a generation name or "miss"
\* (a request object whose method is not GET matches nothing)
DoLookup(store, h, l) ==
    IF l.key = "req" /\ h.req.method # "GET" THEN "miss"
    ELSE LET p == IF l.key = "req" THEN h.req.path ELSE l.key
         IN  CASE l.in = "any" -> MatchAny(store, p)
               [] l.in = "own" -> MatchIn(store, h.gen, p)
               [] OTHER        -> MatchIn(store, l.in, p)

\* the store after the lookup: caches.open creates a missing generation
AfterLookup(store, h, l) ==
    CASE l.in = "any" -> store
      [] l.in = "own" -> Open(store, h.gen)
      [] OTHER        -> Open(store, l.in)

NoAct == [pc |-> "idle", stale |-> {}, todo |-> {}]

NoFetchStep == [name |-> "none", req |-> NoRequest, gen |-> "none", via |-> "none",
                src |-> "none", net |-> "none", store |-> FALSE,
                partial |-> FALSE, started |-> FALSE]

\* the activation of the new version has begun
Started == act.pc \in {"deleting", "done"}
\* some of the generations the activate handler deletes are gone, some not
Partial == act.pc = "deleting" /\ act.todo # {} /\ act.todo # act.stale

FetchStep(name, h) ==
    [NoFetchStep EXCEPT !.name = name, !.req = h.req, !.gen = h.gen, !.net = h.net,
                        !.partial = Partial, !.started = Started]

\* the handler's promise settles: the page gets its response
Answered(h, via, src, stored) ==
    [FetchStep("answer", h) EXCEPT !.via = via, !.src = src, !.store = stored]

\* everything that is not the interception layer's own state
notFetch == <<syncVars, op, updateVars>>

\* the previous version is active; its generation holds its precache list, or
\* nothing when its addAll failed
InitFetch ==
    /\ SyncIdle
    /\ op = NoOp
    /\ UpdateIdle
    /\ worker \in WorkerKinds
    /\ cacheStore \in {<<Gen("old", Precache(worker))>>, <<Gen("old", {})>>}
    /\ act = NoAct
    /\ handlers = {}
    /\ fstep = NoFetchStep

\* install handler of the new version: caches.open(CACHE_NAME), addAll; a
\* failed addAll stores nothing and is caught.  part_011 does not catch it:
\* the promise given to waitUntil rejects, the install fails and the browser
\* discards the version (it may try the update again later).
Install(ok) ==
    /\ UNCHANGED notFetch
    /\ act.pc \in {"idle", "redundant"}
    /\ cacheStore' = IF ok THEN PutAll(cacheStore, "cur", Precache(worker))
                     ELSE Open(cacheStore, "cur")
    /\ act' = [act EXCEPT !.pc = IF ok \/ worker # "pwa" THEN "installed"
                                 ELSE "redundant"]
    /\ fstep' = NoFetchStep
    /\ UNCHANGED <<worker, handlers>>

\* activate handler: keys = await caches.keys(); one caches.delete per key
\* that is not kept, all started together.  The browser activates a version
\* when the previous one has no pending event, i.e. no promise given to
\* respondWith is unsettled; a best-effort write may still be running.
ActivateStart ==
    /\ UNCHANGED notFetch
    /\ act.pc = "installed"
    /\ \A h \in handlers : h.pc = "put"
    /\ LET todo == GenNamesOf(cacheStore) \ Keep(worker)
       IN  act' = [pc |-> "deleting", stale |-> todo, todo |-> todo]
    /\ fstep' = NoFetchStep
    /\ UNCHANGED <<worker, cacheStore, handlers>>

\* one of the caches.delete(k) calls completes
DeleteOne(n) ==
    /\ UNCHANGED notFetch
    /\ act.pc = "deleting"
    /\ n \in act.todo
    /\ cacheStore' = Delete(cacheStore, n)
    /\ act' = [act EXCEPT !.todo = @ \ {n}]
    /\ fstep' = NoFetchStep
    /\ UNCHANGED <<worker, handlers>>

\* Promise.all resolved, clients.claim(): the new version is activated
ActivateDone ==
    /\ UNCHANGED notFetch
    /\ act.pc = "deleting"
    /\ act.todo = {}
    /\ act' = [act EXCEPT !.pc = "done"]
    /\ fstep' = NoFetchStep
    /\ UNCHANGED <<worker, cacheStore, handlers>>

\* one round of the loop of cachePagesBestEffort() in the page script, after
\* caches.open(PAGES_CACHE): fetch(path) settles with outcome r, and the page
\* is put into PAGES_CACHE if (res && res.ok); a rejection is caught
SnapshotPages(p, r) ==
    /\ UNCHANGED notFetch
    /\ cacheStore' = IF r = "ok" THEN PutAll(cacheStore, "pages", {p})
                     ELSE Open(cacheStore, "pages")
    /\ fstep' = [NoFetchStep EXCEPT !.name = "snapshot",
                                    !.req = Request("GET", "cors", p),
                                    !.gen = "pages", !.net = r, !.store = (r = "ok")]
    /\ UNCHANGED <<worker, act, handlers>>

\* the version whose fetch handler gets the events: the previous one until
\* the activation begins, the new one once it is activated
Dispatch ==
    IF act.pc \in {"idle", "installed", "redundant"} THEN "old"
    ELSE IF act.pc = "done" THEN "cur" ELSE "none"

\* a fetch event: the synchronous part of the handler
FetchEvent(req) ==
    /\ UNCHANGED notFetch
    /\ Dispatch # "none"
    /\ Cardinality(handlers) < MaxFetches
    /\ LET rt == Route(worker, req)
           h == [gen |-> Dispatch, req |-> req, k |-> 1, net |-> "none",
                 pc |-> IF rt.type = "networkFirst" THEN "net" ELSE "chain"]
       IN  IF rt.type = "pass"
           THEN /\ fstep' = FetchStep("pass", h)
                /\ UNCHANGED handlers
           ELSE /\ fstep' = FetchStep("respondWith", h)
                /\ handlers' = handlers \cup {h}
    /\ UNCHANGED <<worker, cacheStore, act>>

\* outcomes of fetch(req): a response with a success status, a response with
\* an error status, a rejection
NetOutcomes == {"ok", "err", "fail"}

\* fetch(req) of handler h settles
NetReply(h, r) ==
    /\ UNCHANGED notFetch
    /\ h.pc = "net"
    /\ LET rt == Route(worker, h.req)
           h1 == [h EXCEPT !.net = r]
       IN  IF r # "fail"
           THEN /\ fstep' = Answered(h1, "net", "net", rt.store)
                /\ handlers' = IF rt.store
                               THEN (handlers \ {h}) \cup {[h1 EXCEPT !.pc = "put"]}
                               ELSE handlers \ {h}
           ELSE IF rt.type = "networkFirst" /\ ~rt.form
           THEN /\ fstep' = FetchStep("failed", h1)
                /\ handlers' = (handlers \ {h}) \cup {[h1 EXCEPT !.pc = "chain"]}
           ELSE /\ fstep' = IF rt.form THEN Answered(h1, "form", "html", FALSE)
                            ELSE Answered(h1, rt.last, "none", FALSE)
                /\ handlers' = handlers \ {h}
    /\ UNCHANGED <<worker, cacheStore, act>>

\* one awaited cache lookup of handler h
ChainStep(h) ==
    /\ UNCHANGED notFetch
    /\ h.pc = "chain"
    /\ LET rt == Route(worker, h.req)
           l == rt.chain[h.k]
           hit == DoLookup(cacheStore, h, l)
       IN  /\ cacheStore' = AfterLookup(cacheStore, h, l)
           /\ IF hit # "miss"
              THEN /\ fstep' = Answered(h, l.via, hit, FALSE)
                   /\ handlers' = handlers \ {h}
              ELSE IF h.k < Len(rt.chain)
              THEN /\ fstep' = FetchStep("lookup", h)
                   /\ handlers' = (handlers \ {h}) \cup {[h EXCEPT !.k = @ + 1]}
              ELSE IF rt.type = "networkFirst"
              THEN /\ fstep' = Answered(h, rt.last, "none", FALSE)
                   /\ handlers' = handlers \ {h}
              ELSE /\ fstep' = FetchStep("lookup", h)
                   /\ handlers' = (handlers \ {h}) \cup {[h EXCEPT !.pc = "net"]}
    /\ UNCHANGED <<worker, act>>

\* a cache write that opens the generation and stores nothing
AfterPutNothing(k, store, h) == Open(store, h.gen)

\* the store after handler h wrote its copy: caches.open(CACHE_NAME).then(c =>
\* c.put(req, copy)) creates the generation again when it was deleted, and put
\* rejects for a request whose method is not GET; the "pages" iteration puts
\* into the cache object it opened for the lookup, which a deletion detaches
AfterPut(k, store, h) ==
    IF k = "pages"
    THEN IF h.gen \in GenNamesOf(store) THEN PutAll(store, h.gen, {h.req.path}) ELSE store
    ELSE IF h.req.method = "GET" THEN PutAll(store, h.gen, {h.req.path})
    ELSE Open(store, h.gen)

\* the best-effort cache write of handler h
PutStep(h) ==
    /\ UNCHANGED notFetch
    /\ h.pc = "put"
    /\ cacheStore' = AfterPut(worker, cacheStore, h)
    /\ handlers' = handlers \ {h}
    /\ fstep' = [FetchStep("put", h) EXCEPT !.store = h.req.method = "GET"]
    /\ UNCHANGED <<worker, act>>

NextFetch ==
    \/ \E ok \in BOOLEAN : Install(ok)
    \/ ActivateStart
    \/ \E n \in GenNames : DeleteOne(n)
    \/ ActivateDone
    \/ \E p \in PagePaths, r \in NetOutcomes : SnapshotPages(p, r)
    \/ \E req \in Requests : FetchEvent(req)
    \/ \E h \in handlers, r \in NetOutcomes : NetReply(h, r)
    \/ \E h \in handlers : ChainStep(h)
    \/ \E h \in handlers : PutStep(h)

SpecFetch == InitFetch /\ [][NextFetch]_vars

----------------------------------------------------------------------------
(* Properties *)

SentIds(sent) == [k \in 1..Len(sent) |-> sent[k].id]
AllOk(sent) == \A k \in 1..Len(sent) : sent[k].res = "ok"
\* no request was issued after one that did not succeed
NothingAfterFailure(sent) == \A k \in 1..Len(sent) - 1 : sent[k].res = "ok"
StoredIds == Ids(Queue(engine, storage))
EnqueuedIds == 1..(nextId - 1)
PassEnded == lastPass.end # "none"

\* C1: a drain pass that started online on a queue of N items (N >= 0), ran
\* alone with no enqueue in between and had every replay answered with
\* success, leaves the persisted queue empty and has issued exactly N
\* requests, one per item, in enqueue order.
C1_FullDrain ==
    (PassEnded /\ lastPass.end # "offline" /\ lastPass.clean /\ AllOk(lastPass.sent))
        => /\ lastPass.endQ = <<>>
           /\ StoredIds = {}
           /\ SentIds(lastPass.sent) = lastPass.startQ

C1_Witness ==
    /\ lastPass.end = "completed" /\ lastPass.clean /\ AllOk(lastPass.sent)
    /\ Len(lastPass.startQ) = 2
    /\ Len(lastPass.sent) = 2

\* C2: in the remove-by-id engine and in the remove-then-requeue engine, a
\* drain pass on items 1..N that ran alone and whose K-th replay failed ends
\* with exactly the items K..N in the persisted queue, in their original
\* order, after having sent the items 1..K in order.
C2_FailureKeepsTail ==
    (engine \in {"byId", "requeue"} /\ lastPass.end \in {"failed", "threw"}
        /\ lastPass.clean)
        => LET K == Len(lastPass.sent)
               N == Len(lastPass.startQ)
           IN  /\ K >= 1 /\ K <= N
               /\ lastPass.end = "failed"
               /\ lastPass.endQ = SubSeq(lastPass.startQ, K, N)
               /\ IdSeq(Queue(engine, storage)) = lastPass.endQ
               /\ SentIds(lastPass.sent) = SubSeq(lastPass.startQ, 1, K)

C2_Witness ==
    /\ engine = "requeue" /\ lastPass.end = "failed" /\ lastPass.clean
    /\ Len(lastPass.startQ) = 2
    /\ Len(lastPass.sent) = 2
    /\ Len(lastPass.endQ) = 1

\* C3: under every interleaving of the triggers of app.js ('online', 'load',
\* click on 'sync now') at most one drain pass is active, so there are never
\* two replay requests in flight at the same moment.
C3_OneInFlight ==
    engine = "byId" => InFlightCount <= 1

\* C4: in the engines the claim names (remove-by-id, remove-then-requeue), in
\* every reachable state every enqueued item whose replay has not been
\* confirmed successful is present in the persisted queue.
C4_UnconfirmedIsStored ==
    engine \in {"byId", "requeue"}
        => \A id \in EnqueuedIds : id \notin confirmed => id \in StoredIds

\* a step removes from the persisted queue only items whose replay has been
\* answered with a success-range final status
RemovedAreConfirmed ==
    \A id \in StoredIds : (id \in StoredIds') \/ (id \in confirmed')

\* C5: in the engines the claim names (part_004 and app.js), an item leaves the
\* persisted queue only when a replay of that item has completed with a
\* success-range final status.
C5_RemovedOnlyConfirmed ==
    [][(engine \in {"byId", "batchFetch"}) => RemovedAreConfirmed]_vars

C7_OneNotification ==
    engine \in {"byId", "batchToast"}
        => /\ lastPass.end = "failed"
                => lastPass.failToasts = 1 /\ lastPass.okToasts = 0
           /\ lastPass.end = "completed"
                => lastPass.okToasts = 1 /\ lastPass.failToasts = 0
           /\ lastPass.end \in {"empty", "offline"}
                => lastPass.okToasts = 0 /\ lastPass.failToasts = 0

C9_LoadYieldsArray ==
    loaded # NotLoaded
        => /\ loaded.kind = "array"
           /\ storage.kind \in {"missing", "corrupt", "emptystr"} => loaded = EmptyArray

\* C10: enqueue never fails its caller (app.js, part_005): whenever the submit
\* handler ran, also with the storage quota reached, its enqueue call returned
\* normally and the handler ran to completion.
C10_EnqueueNeverRaises ==
    (engine \in {"byId", "requeue"} /\ ret.calls > 0) => ~ret.threw /\ ret.done

\* the queue a content of the storage key stands for: a missing or corrupt
\* blob, or one that is no array, counts as the empty queue
QueueOf(b) == IF b.kind = "array" THEN b.arr ELSE <<>>

\* C11: in app.js and part_005, every call of enqueue appends exactly one new
\* item with a fresh id at the tail of the queue, leaves the items queued
\* before it and their order unchanged, has the result persisted when it
\* returns, and returns the old length plus one.
C11_EnqueueAppendsOne ==
    (engine \in {"byId", "requeue"} /\ op.name = "enqueue")
        => LET old == QueueOf(op.before)
               now == QueueOf(storage)
           IN  /\ ~op.threw
               /\ Len(now) = Len(old) + 1
               /\ SubSeq(now, 1, Len(old)) = old
               /\ now[Len(now)].id = op.arg
               /\ op.arg \notin Ids(old)
               /\ now = ret.mem
               /\ ret.len = Len(old) + 1

\* C12: dequeueFirst on a non-empty queue removes and returns the oldest item
\* and leaves the rest in order, on an empty queue it returns nothing and
\* leaves the queue empty; dequeueById removes exactly the items with the
\* given id, keeps the others in order, and changes nothing when no item has
\* that id.
C12_DequeueContracts ==
    LET old == QueueOf(op.before)
        now == QueueOf(storage)
    IN  /\ op.name = "dequeueFirst"
            => /\ ~op.threw
               /\ IF old # <<>>
                  THEN op.item = <<Head(old)>> /\ now = Tail(old)
                  ELSE op.item = <<>> /\ now = <<>>
        /\ op.name = "dequeueById"
            => /\ ~op.threw
               /\ now = SelectSeq(old, LAMBDA x : x.id # op.arg)
               /\ op.arg \notin Ids(old) => now = old

\* C13: a candidate that reaches 'installed' while no version controls the
\* page (a first-ever install) never shows the update prompt, and a later
\* version that reaches 'installed' while an active version controls the page,
\* whose script has registered, shows it.
C13_PromptOnlyOnUpdate ==
    /\ page.updateBanner => controller # 0
    /\ ulast.name = "installed"
         => /\ ulast.ctl = 0 => ~page.updateBanner
            /\ (ulast.ctl # 0 /\ page.registered) => page.updateBanner

\* a version takes over a document controlled by an older version only after
\* the user asked for the activation in that document
TakeoverWasAsked ==
    (controller # 0 /\ controller' # controller /\ ulast'.name = "activated")
        => page.asked

\* C14: the candidate goes from waiting to activated, taking control of a page
\* served by an older active version, only after the user explicitly requested
\* the activation.
C14_ActivationNeedsUser == [][TakeoverWasAsked]_vars

\* C15: a click on the update button while a candidate is waiting sends the
\* SKIP_WAITING message to it, and once the candidate has received the message
\* it has stopped waiting: its skip-waiting flag is set or it is active.
C15_SkipWaitingActivates ==
    /\ (ulast.name = "click" /\ ulast.ver # 0) => inbox = ulast.ver
    /\ ulast.name = "message" => (reg.skip \/ reg.waiting # ulast.ver)

\* C16: in a document where the user requested the activation and one or more
\* controllerchange signals arrived, location.reload() has been called exactly
\* once.
C16_ReloadExactlyOnce ==
    (page.asked /\ page.changes >= 1) => page.reloadCalls = 1

\* C17: every intercepted request whose method is not GET passes through
\* untouched: the fetch handler never calls respondWith for it, never answers
\* it from a cache and never writes its response into a cache.
C17_NonGetPassesThrough ==
    (fstep.name # "none" /\ fstep.req.method # "GET") => fstep.name = "pass"

\* C18: after the activation of a new version completes (activate handlers of
\* sw.js:30-36 and part_008:20-22), exactly one cache generation exists in the
\* cache store, the one with the activated version's designated name; every
\* generation with a different name has been deleted.
C18_OneGenerationAfterActivation ==
    (worker \in {"shell", "simple"} /\ act.pc = "done")
        => GenNamesOf(cacheStore) = {"cur"}

\* C19: the swap of cache generations is atomic for readers (sw.js:30-36
\* against sw.js:42-81): under every interleaving of the activate handler's
\* deletions with the fetch handler's cache lookups and best-effort writes, no
\* request observes a state in which only some of the stale generations are
\* deleted, and once the activation has started no request is answered from an
\* entry of a generation other than the current one.
C19_AtomicGenerationSwap ==
    worker = "shell" =>
        /\ fstep.name \in {"answer", "lookup"} => ~fstep.partial
        /\ (fstep.name = "answer" /\ fstep.started /\ fstep.src \in GenNames)
               => fstep.src = "cur"

\* the last step answered a navigation request handled by the scripts of
\* sw.js:1-81 (part_007:80-161) or sw.js:215-420
NavigationAnswered ==
    /\ worker \in {"shell", "pages"}
    /\ fstep.name = "answer"
    /\ fstep.req.method = "GET"
    /\ fstep.req.mode = "navigate"

\* C20: for a navigation request the network is attempted first; if the
\* network answers, that response is returned and a copy is stored in the
\* current generation; if the network fails, the response is, in this order
\* of priority, the exact cached match for the request, else the designated
\* fallback page /visits/new, else a generic offline placeholder page.
C20_NavigationNetworkFirst ==
    NavigationAnswered =>
        /\ fstep.net # "none"
        /\ fstep.net \in {"ok", "err"} => (fstep.via = "net" /\ fstep.store)
        /\ fstep.net = "fail" =>
              LET exact == MatchAny(cacheStore, fstep.req.path) # "miss"
                  fallback == MatchAny(cacheStore, "/visits/new") # "miss"
              IN  fstep.via = IF exact THEN "exact"
                              ELSE IF fallback THEN "fallback"
                              ELSE "placeholder"

\* what a cache-first lookup of the script sees for a path: any generation
\* (caches.match, sw.js:51) or the handler's own (cache.match, sw.js:408-409)
Seen(k, store, gen, path) ==
    IF k = "pages" THEN MatchIn(store, gen, path) ELSE MatchAny(store, path)

\* the last step belongs to a GET request for a static asset handled by the
\* static branches of sw.js:48-61 and sw.js:406-419
StaticStep(name) ==
    /\ worker \in {"shell", "pages"}
    /\ fstep.name = name
    /\ fstep.req.method = "GET"
    /\ IsStatic(fstep.req.path)

TriggerEngines == {"byId", "batchToast"}

\* the device reports online and the persisted queue is not empty
Pending == online /\ QueueCount(engine, storage) > 0

\* a step that is a transition to online, a page load or a 'sync now' click
TriggerStep ==
    \/ ~online /\ online'
    \/ loadPending /\ ~loadPending'
    \/ ~banner.disabled /\ banner'.disabled

\* such a step, taken with items pending, adds one call of syncQueue (running,
\* or waiting for its settle delay)
TriggerStartsPass ==
    (engine \in TriggerEngines /\ TriggerStep /\ online' /\ QueueCount(engine, storage) > 0)
        => BagCardinality(pass') = BagCardinality(pass) + 1

\* C22: a drain pass is started on every transition to online (at once or
\* after the settle delay), on every page load and on every 'sync now' click;
\* so when every replay succeeds and items are pending, a loaded page starts a
\* pass, and a pass under way leads to an empty queue unless the device goes
\* offline or the page is closed (after which its next load starts over).
C22_TriggersDrain ==
    /\ [][TriggerStartsPass]_vars
    /\ []((engine \in TriggerEngines /\ Pending) => (pass # EmptyBag \/ loadPending))
    /\ (engine \in TriggerEngines /\ Pending /\ loadPending)
          ~> (pass # EmptyBag \/ ~Pending)
    /\ (engine \in TriggerEngines /\ Pending /\ pass # EmptyBag)
          ~> (~Pending \/ loadPending)

\* a pass started by a trigger has emptied a queue that was not empty
C22_Witness ==
    /\ engine \in TriggerEngines
    /\ online
    /\ lastPass.end = "completed"
    /\ Len(lastPass.startQ) > 0
    /\ QueueCount(engine, storage) = 0

\* the step sends a replay request: some call of syncQueue has a request in
\* flight that it did not have before
IssuesRequest ==
    \E rec \in BagToSet(pass') :
        /\ InFlight(rec)
        /\ \A old \in BagToSet(pass) : InFlight(old) => old.sent # rec.sent

\* a replay request is sent only while the device reports online
SentOnlyOnline ==
    (engine \in {"byId", "requeue"} /\ IssuesRequest) => online'

\* C23: replay requests of syncQueue (app.js:162-179, part_005:115-131) are
\* issued only while the device reports online: a pass started offline issues
\* none, and after a change to offline during a pass that pass issues no
\* further request.
C23_ReplayOnlyOnline == [][SentOnlyOnline]_vars

\* C24: errors during cache population are never fatal: when pre-caching
\* during install fails the install still completes and the version can
\* activate (sw.js:21-28, sw.js:141-147, part_011:12-17), and when storing the
\* copy of a fetched response fails the response has still been returned.
C24_PopulationErrorsNotFatal ==
    /\ act.pc # "redundant"
    /\ (fstep.name = "put" /\ ~fstep.store) => fstep.net \in {"ok", "err"}

\* no event handler of the page script is running: the load handler has run
\* and no call of syncQueue is waiting for a response or a timer
Settled == ~loadPending /\ pass = EmptyBag

\* what the banner must show for the current connectivity and queue
Reflects(bnr, on, cnt) ==
    IF ~on THEN bnr.el /\ bnr.red /\ bnr.cnt = cnt /\ ~bnr.btn
    ELSE IF cnt > 0 THEN bnr.el /\ ~bnr.red /\ bnr.btn /\ bnr.cnt = cnt
    ELSE ~bnr.el

\* C25: whenever no event handler is running, the status banner of app.js
\* reflects the current state: offline -> red banner visible with the pending
\* count and no 'sync now' button; online with pending items -> banner visible
\* with the button and a count equal to the persisted queue length; online
\* with an empty queue -> banner hidden.
C25_BannerReflectsState ==
    (engine = "byId" /\ Settled)
        => Reflects(banner, online, QueueCount(engine, storage))

\* C25 as amended: once the load handler has run, whenever no event handler
\* is running and the user has not closed the banner since it was last
\* refreshed, the banner reflects the current state.
C25_BannerReflectsUnlessClosed ==
    (engine = "byId" /\ Settled /\ ~banner.closed)
        => Reflects(banner, online, QueueCount(engine, storage))

\* online again with an item still pending after a pass: the banner shows the
\* count and the 'sync now' button
C25_Witness ==
    /\ engine = "byId"
    /\ Settled
    /\ online
    /\ QueueCount(engine, storage) > 0
    /\ lastPass.end = "failed"
    /\ banner.el /\ banner.btn /\ banner.cnt = QueueCount(engine, storage)

\* the engines that clear the persisted queue only after the whole loop
BatchEngines == {"batchToast", "batchFetch"}

\* the step in which a pass stops on a failed replay does not write the queue
FailedStopKeepsQueue ==
    (engine \in BatchEngines /\ pass' # pass /\ lastPass'.end = "failed")
        => storage' = storage

\* C26: in the batch-clear engines (part_005:230-254, part_004:41-61) a drain
\* pass that stops on a failed replay leaves the persisted queue exactly as it
\* was before the pass started: same items, same order, nothing removed.
C26_FailedBatchKeepsQueue ==
    /\ [][FailedStopKeepsQueue]_vars
    /\ []((engine \in BatchEngines /\ lastPass.end = "failed" /\ lastPass.clean)
             => (lastPass.endQ = lastPass.startQ /\ Len(lastPass.startQ) > 0))

\* a batch pass that ran alone has stopped at its second replay
C26_Witness ==
    /\ engine \in BatchEngines
    /\ lastPass.end = "failed"
    /\ lastPass.clean
    /\ Len(lastPass.sent) = 2
    /\ Len(Queue(engine, storage)) >= 2

\* the stored item with the given id
ItemOf(q, id) == q[CHOOSE k \in 1..Len(q) : q[k].id = id]

\* a step leaves every item that stays in the persisted queue as it was
StoredItemsUntouched ==
    LET old == Queue(engine, storage)
        now == Queue(engine, storage')
    IN  \A id \in Ids(old) \cap Ids(now) : ItemOf(now, id) = ItemOf(old, id)

\* a stored item is as enqueue created it, from the form as typed or as a
\* listener that ran before left it
AsCreated(item) ==
    /\ item.id < nextId
    /\ item.created_at = Stamp(item.id)
    /\ item.data \in {FormData(form) : form \in TypedForms \cup {ClearedForm}}

\* C27: queue items are never mutated in place: the id, creation timestamp
\* and payload of every item in the persisted queue are the same in every
\* state from its enqueue until its removal, across enqueues, removals, failed
\* replays and re-insertions at the front.
C27_ItemsImmutable ==
    /\ [][StoredItemsUntouched]_vars
    /\ [](\A k \in 1..Len(Queue(engine, storage)) : AsCreated(Queue(engine, storage)[k]))

\* a failed replay of part_005 has put its item back in front of a later one
C27_Witness ==
    /\ engine = "requeue"
    /\ lastPass.end = "failed"
    /\ Len(Queue(engine, storage)) >= 2
    /\ Queue(engine, storage)[1].id = lastPass.sent[Len(lastPass.sent)].id
    /\ AsCreated(Queue(engine, storage)[1])

\* C28: the body of a replay request is the URL-encoded field map rebuilt from
\* the item's payload: every field name captured at enqueue time with the
\* captured value, and no field that was not in the payload.
C28_ReplayBodyIsPayload ==
    op.name = "post" =>
        LET d == op.item[1].data
            body == op.item[1].body
        IN  /\ DOMAIN body = DOMAIN d
            /\ \A name \in DOMAIN d \cap DOMAIN body : Decode(body[name]) = d[name]

\* an item is created, or a listener takes a submission over, only in a step
\* that starts with the device reporting offline
CreatedOnlyOffline ==
    (nextId' # nextId \/ ret'.calls > 0) => ~online

\* C29: a queue item is created only when a form submission is attempted
\* while the device reports offline: a submission made while the device
\* reports online is never intercepted and never adds an item to the queue.
C29_EnqueueOnlyOffline == [][CreatedOnlyOffline]_vars

\* an offline submission has been taken over and its item stored
C29_Witness ==
    /\ ~online
    /\ ret.done
    /\ ret.calls = 1
    /\ Len(Queue(engine, storage)) = ret.len
    /\ ret.len > 0

\* a step that stores a new item makes the queue exactly one item longer
OneItemPerSubmission ==
    nextId' # nextId =>
        /\ nextId' = nextId + 1
        /\ Len(Queue(engine, storage')) = Len(Queue(engine, storage)) + 1

\* C30: each offline form submission appends exactly one item to the queue,
\* however many load and visibilitychange events came before it: running the
\* form hook again never makes one submission store more than one item.
C30_OneItemPerSubmission == [][OneItemPerSubmission]_vars

\* the items stored now that the initial read of the running pass rec did not
\* see: they were put into the queue while rec was in progress
LateItems(rec) == {id \in StoredIds : \A k \in 1..Len(rec.startQ) : rec.startQ[k] # id}

\* the step in which the pass rec ends keeps every late item of rec in the
\* persisted queue, unless a replay of that item has succeeded
PassEndKeepsLateItems ==
    \A rec \in Passes :
        (InFlight(rec) /\ lastPass'.end # "none" /\ pass' = pass (-) SetToBag({rec}))
            => \A id \in LateItems(rec) : id \in StoredIds' \/ id \in confirmed'

\* C31: an item enqueued while a drain pass is in progress (between the
\* pass's initial queue read and its final queue write) is never removed from
\* the persisted queue without having been replayed: after the pass ends, the
\* item is either still in the queue or was successfully replayed.
C31_LateItemSurvivesPass == [][PassEndKeepsLateItems]_vars

\* a replay that is answered with success is the first success for its item
FirstSuccess ==
    \A rec \in Passes :
        Respond(rec, "ok") => rec.item[1].id \notin confirmed

\* C32: no duplicate submissions: across any sequence of drain passes, replay
\* failures and re-triggers, each enqueued item is successfully replayed to
\* the server at most once (an item whose replay already succeeded is never
\* sent again in a later or concurrent pass).
C32_NoDuplicateSubmission == [][FirstSuccess]_vars

\* the last step settled the promise given to respondWith for a navigation
\* request, in the scripts of sw.js:1-81, sw.js:83-213, part_010 and part_009
NavigationSettled ==
    /\ worker \in {"shell", "v6", "v7", "phase1"}
    /\ fstep.name = "answer"
    /\ fstep.req.mode = "navigate"

\* C33: every intercepted navigation request is answered with a response
\* object in every state of the network and the cache: when the network fails
\* and the cache holds neither the requested page nor any fallback page, the
\* handler still resolves to a placeholder response rather than to no
\* response (via "none") or an error (via "error").
C33_NavigationAlwaysAnswered ==
    NavigationSettled => fstep.via \notin {"none", "error"}

\* a candidate has just reached 'installed' while a version controls the page
UpdateReady == ulast.name = "installed" /\ ulast.ctl # 0

\* the update prompt goes away only by the user's doing: the close button, or
\* a load of the document
PromptStays ==
    (page.updateBanner /\ ~page'.updateBanner)
        => ulast'.name \in {"close", "load", "reopen"}

\* C34: an available update is never lost: whenever a candidate version
\* reaches 'installed' while an active version controls the page, the update
\* prompt is eventually visible and stays visible until the user reloads or
\* dismisses it, regardless of any other banner shown or removed by a timer
\* at that moment.  (A candidate that has been activated is no longer an
\* available update.)
C34_UpdateNeverLost ==
    /\ UpdateReady ~> (page.updateBanner \/ reg.waiting = 0)
    /\ [][PromptStays]_vars

\* the step in which the first version claims the open document (control goes
\* from no controller to that version) calls location.reload() in no listener
FirstClaimKeepsPage ==
    (controller = 0 /\ controller' # 0 /\ ulast'.name = "activated")
        => /\ page'.reloadCalls = page.reloadCalls
           /\ page'.reloading = page.reloading

\* C35: a first-ever install of the interception layer never reloads the
\* foreground page: when the first version activates and claims the
\* already-open page, no page reload is triggered.
C35_FirstInstallNoReload == [][FirstClaimKeepsPage]_vars

\* C36: a response with a non-success HTTP status is never written into any
\* cache generation, neither by the fetch handler's best-effort write
\* (navigation and static branches) nor by the page-snapshot caching of the
\* foreground script: every write stores a response with a success status.
C36_OnlySuccessCached ==
    (fstep.name \in {"put", "snapshot"} /\ fstep.store) => fstep.net = "ok"

====
